---- MODULE Spec2Model ----
(***************************************************************************)
(* The Manager contract of clipcat's client crate                          *)
(* (crates/client/src/manager.rs): the adapter `impl Manager for Client`   *)
(* turns every Manager operation into one unary remote call and maps the   *)
(* reply to the operation's result type.                                   *)
(*                                                                         *)
(* Two specifications:                                                     *)
(*   Spec      the adapter in front of a clipboard-history daemon.  The    *)
(*             daemon, the proto <-> ClipEntry conversion and the ClipEntry*)
(*             comparison are not part of manager.rs; they are modelled    *)
(*             from the written contract.                                  *)
(*   WireSpec  the adapter in front of an arbitrary channel: any reply of  *)
(*             the right message shape, well-formed or not.                *)
(***************************************************************************)
EXTENDS Integers, Sequences, FiniteSets, TLC

\* ---------------------------------------------------------------- bounds
MaxId == 2          \* ids are 1..MaxId (u64 in the code)
MaxBatch == 2       \* longest id list handed to batch_remove
UsizeBits == 2      \* width of the scaled-down usize
WireSlack == 2      \* how far wire counts reach outside 0..UsizeMax
MaxWireList == 2    \* longest list/batch reply of the arbitrary channel

\* ---------------------------------------------------------------- values
Ids == 1..MaxId
Modes == {"Clipboard", "Selection"}
Keys == {0, 1}
Statuses == {"unavailable", "internal"}
UsizeMax == 2 ^ UsizeBits - 1
WireCounts == (0 - WireSlack)..(UsizeMax + WireSlack)

\* mime::Mime values: the essence (type/subtype) and the parameters.
Mimes ==
    { [essence |-> "text/plain", params |-> ""],
      [essence |-> "text/plain", params |-> "charset=utf-8"],
      [essence |-> "image/png", params |-> ""] }

\* The payload/media-type pairs the callers pass.
Pairs ==
    { [data |-> "hello", mime |-> [essence |-> "text/plain", params |-> ""]],
      [data |-> "hello", mime |-> [essence |-> "text/plain", params |-> "charset=utf-8"]],
      [data |-> "", mime |-> [essence |-> "image/png", params |-> ""]] }

\* Mime::essence_str(): the type/subtype part, without any parameter.
essence_str(m) == m.essence

\* The full string form of a media type, as Mime's Display writes it.
MimeStr(m) == IF m.params = "" THEN m.essence ELSE m.essence \o "; " \o m.params

\* Parsing a wire string back into a Mime (ClipEntry::from).
ParseMime(s) ==
    IF \E m \in Mimes : MimeStr(m) = s
    THEN CHOOSE m \in Mimes : MimeStr(m) = s
    ELSE [essence |-> "application/octet-stream", params |-> ""]

\* ClipboardMode -> wire code (mode.into()).
ModeToWire(mode) == IF mode = "Clipboard" THEN 0 ELSE 1

\* proto::ClipEntry -> ClipEntry (data.into(), ClipEntry::from).
ClipEntryFrom(w) ==
    [id |-> w.id, data |-> w.data, mime |-> ParseMime(w.mime), key |-> w.key]

\* The ClipEntry comparison (Ord): the opaque ordering key, then the id.
ClipLess(a, b) == a.key < b.key \/ (a.key = b.key /\ a.id < b.id)

ClipLeq(a, b) == ~ClipLess(b, a)

Range(s) == {s[i] : i \in DOMAIN s}

SeqsUpTo(S, n) == UNION {[1..k -> S] : k \in 0..n}

RECURSIVE InsertSorted(_, _)
InsertSorted(e, s) ==
    IF s = <<>> THEN <<e>>
    ELSE IF ClipLeq(e, Head(s)) THEN <<e>> \o s
    ELSE <<Head(s)>> \o InsertSorted(e, Tail(s))

RECURSIVE SortFrom(_, _)
SortFrom(s, acc) ==
    IF s = <<>> THEN acc ELSE SortFrom(Tail(s), InsertSorted(Head(s), acc))

\* Vec::sort_unstable(): the sorted rearrangement of the vector.
sort_unstable(s) == SortFrom(s, <<>>)

MapEntries(s) == [i \in DOMAIN s |-> ClipEntryFrom(s[i])]

\* ---------------------------------------------------------------- results
\* An Option is <<>> (None) or <<v>> (Some(v)).
None == <<>>
Some(v) == <<v>>

\* Result<T, E>.  An error value is its variant (kind), the transport failure it
\* wraps (source) and the request parameters the variant has fields for; no
\* variant of any operation's error has a field for a list of ids.
NoErr == [kind |-> "None", source |-> None, id |-> None, mode |-> None, ids |-> None]
Ok(v) == [ok |-> TRUE, val |-> v, err |-> NoErr]
Err(e) == [ok |-> FALSE, val |-> "none", err |-> e]
StatusErr(source, id, mode) ==
    [kind |-> "Status", source |-> Some(source), id |-> id, mode |-> mode,
     ids |-> None]
Empty == [kind |-> "Empty", source |-> None, id |-> None, mode |-> None, ids |-> None]

\* Result<tonic::Response<T>, tonic::Status>
OkReply(body) == [ok |-> TRUE, status |-> "OK", body |-> body]
FailReply(s) == [ok |-> FALSE, status |-> s, body |-> "none"]

\* ---------------------------------------------------------------- adapter
\* Each operation: the request it builds and the result it maps the reply to.

GetRequest(id) == [rpc |-> "get", id |-> id]

\* Variant of GetResult: a reply without data reported as a Status error.
GetResult_SwallowEmpty(id, reply) ==
    IF ~reply.ok THEN Err(StatusErr(reply.status, Some(id), None))
    ELSE IF reply.body.data = None
         THEN Err(StatusErr("not_found", Some(id), None))
    ELSE Ok(ClipEntryFrom(reply.body.data[1]))

GetResult(id, reply) ==
    IF ~reply.ok THEN Err(StatusErr(reply.status, Some(id), None))
    ELSE IF reply.body.data = None THEN Err(Empty)
    ELSE Ok(ClipEntryFrom(reply.body.data[1]))

GetCurrentClipRequest(mode) == [rpc |-> "get_current_clip", mode |-> ModeToWire(mode)]

GetCurrentClipResult(mode, reply) ==
    IF ~reply.ok THEN Err(StatusErr(reply.status, None, Some(mode)))
    ELSE IF reply.body.data = None THEN Err(Empty)
    ELSE Ok(ClipEntryFrom(reply.body.data[1]))

UpdateRequest(id, data, mime) ==
    [rpc |-> "update", id |-> id, data |-> data, mime |-> essence_str(mime)]

UpdateResult(reply) ==
    IF ~reply.ok THEN Err(StatusErr(reply.status, None, None))
    ELSE Ok(<<reply.body.ok, reply.body.new_id>>)

MarkRequest(id, mode) == [rpc |-> "mark", id |-> id, mode |-> ModeToWire(mode)]

\* Variant of MarkResult: the Status error built without the mode.
MarkResult_DropMode(id, mode, reply) ==
    IF ~reply.ok THEN Err(StatusErr(reply.status, Some(id), None))
    ELSE Ok(reply.body.ok)

MarkResult(id, mode, reply) ==
    IF ~reply.ok THEN Err(StatusErr(reply.status, Some(id), Some(mode)))
    ELSE Ok(reply.body.ok)

InsertRequest(data, mime, clipboard_mode) ==
    [rpc |-> "insert", mode |-> ModeToWire(clipboard_mode), data |-> data,
     mime |-> essence_str(mime)]

InsertResult(reply) ==
    IF ~reply.ok THEN Err(StatusErr(reply.status, None, None))
    ELSE Ok(reply.body.id)

LengthRequest == [rpc |-> "length"]

\* usize::try_from(length): Some(n) when n fits the unsigned size type.
UsizeTryFrom(n) == IF 0 <= n /\ n <= UsizeMax THEN <<n>> ELSE <<>>

UnwrapOr(opt, d) == IF opt = <<>> THEN d ELSE opt[1]

\* Variant of LengthResult: a count that does not fit reported as an error.
LengthResult_Propagate(reply) ==
    IF ~reply.ok THEN Err(StatusErr(reply.status, None, None))
    ELSE IF UsizeTryFrom(reply.body.length) = <<>>
         THEN Err(StatusErr("out_of_range", None, None))
    ELSE Ok(reply.body.length)

\* Variant of LengthResult: a failed call answered by Ok(0).
LengthResult_Swallow(reply) ==
    IF ~reply.ok THEN Ok(0)
    ELSE Ok(UnwrapOr(UsizeTryFrom(reply.body.length), 0))

LengthResult(reply) ==
    IF ~reply.ok THEN Err(StatusErr(reply.status, None, None))
    ELSE Ok(UnwrapOr(UsizeTryFrom(reply.body.length), 0))

ListRequest == [rpc |-> "list"]

\* Variant of ListResult: the entries returned in the reply's order.
ListResult_Unsorted(reply) ==
    IF ~reply.ok THEN Err(StatusErr(reply.status, None, None))
    ELSE Ok(MapEntries(reply.body.data))

ListResult(reply) ==
    IF ~reply.ok THEN Err(StatusErr(reply.status, None, None))
    ELSE Ok(sort_unstable(MapEntries(reply.body.data)))

RemoveRequest(id) == [rpc |-> "remove", id |-> id]

\* Variant of RemoveResult: the reply's ok flag ignored.
RemoveResult_AlwaysTrue(reply) ==
    IF ~reply.ok THEN Err(StatusErr(reply.status, None, None))
    ELSE Ok(TRUE)

RemoveResult(reply) ==
    IF ~reply.ok THEN Err(StatusErr(reply.status, None, None))
    ELSE Ok(reply.body.ok)

BatchRemoveRequest(ids) == [rpc |-> "batch_remove", ids |-> ids]

\* Variant of BatchRemoveResult: the argument returned instead of the reply's ids.
BatchRemoveResult_EchoRequest(ids, reply) ==
    IF ~reply.ok THEN Err(StatusErr(reply.status, None, None))
    ELSE Ok(ids)

BatchRemoveResult(ids, reply) ==
    IF ~reply.ok THEN Err(StatusErr(reply.status, None, None))
    ELSE Ok(reply.body.ids)

ClearRequest == [rpc |-> "clear"]

\* Variant of ClearResult: a failed call answered by Ok(()).
ClearResult_SwallowFailure(reply) == Ok("unit")

ClearResult(reply) ==
    IF ~reply.ok THEN Err(StatusErr(reply.status, None, None))
    ELSE Ok("unit")

\* ---------------------------------------------------------------- state
VARIABLES
    clips,      \* daemon: the stored entries, id -> wire entry
    current,    \* daemon: wire mode code -> Option of the id held in that buffer
    op,         \* the Manager operation invoked last
    args,       \* its arguments
    sent,       \* the requests that invocation put on the channel
    reply,      \* the reply the channel gave to it
    result,     \* what the invocation returned to its caller
    cleared,    \* history: a clear() succeeded and no insert was invoked since
    prevList,   \* history: Option of the last list() result, no mutation since
    lastIns     \* history: Option of the last successful insert, no mutation since

daemon == <<clips, current>>
call == <<op, args, sent, reply, result>>
history == <<cleared, prevList, lastIns>>
vars == <<clips, current, op, args, sent, reply, result, cleared, prevList,
          lastIns>>

WireModes == {ModeToWire(m) : m \in Modes}
ReadRpcs == {"get", "get_current_clip", "length", "list"}
Present == DOMAIN clips
Free == Ids \ Present

Init ==
    /\ clips = <<>>
    /\ current = [w \in WireModes |-> None]
    /\ op = "none"
    /\ args = "none"
    /\ sent = <<>>
    /\ reply = OkReply("none")
    /\ result = Ok("unit")
    /\ cleared = FALSE
    /\ prevList = None
    /\ lastIns = None

\* ---------------------------------------------------------------- daemon
\* The daemon's handlers: the reply body and the store after the request.
Without(f, D) == [i \in DOMAIN f \ D |-> f[i]]

Unpoint(cur, D) ==
    [w \in DOMAIN cur |-> IF cur[w] # None /\ cur[w][1] \in D THEN None ELSE cur[w]]

Served(body, c, cur) == [body |-> body, clips |-> c, current |-> cur]

ServeGet(req) ==
    Served([data |-> IF req.id \in Present THEN Some(clips[req.id]) ELSE None],
           clips, current)

ServeGetCurrentClip(req) ==
    Served([data |-> IF current[req.mode] # None
                     THEN Some(clips[current[req.mode][1]]) ELSE None],
           clips, current)

ServeInsert(req, nid, key) ==
    Served([id |-> nid],
           (nid :> [id |-> nid, data |-> req.data, mime |-> req.mime, key |-> key])
               @@ clips,
           [current EXCEPT ![req.mode] = Some(nid)])

ServeUpdate(req, nid, key) ==
    IF req.id \notin Present THEN Served([ok |-> FALSE, new_id |-> req.id], clips, current)
    ELSE Served([ok |-> (nid = req.id), new_id |-> nid],
                (nid :> [id |-> nid, data |-> req.data, mime |-> req.mime, key |-> key])
                    @@ Without(clips, {req.id}),
                [w \in DOMAIN current |->
                    IF current[w] = Some(req.id) THEN Some(nid) ELSE current[w]])

ServeMark(req) ==
    IF req.id \in Present
    THEN Served([ok |-> TRUE], clips, [current EXCEPT ![req.mode] = Some(req.id)])
    ELSE Served([ok |-> FALSE], clips, current)

ServeLength(req) == Served([length |-> Cardinality(Present)], clips, current)

ServeList(req, order) == Served([data |-> [i \in DOMAIN order |-> clips[order[i]]]],
                                clips, current)

ServeRemove(req) ==
    Served([ok |-> req.id \in Present], Without(clips, {req.id}),
           Unpoint(current, {req.id}))

RECURSIVE RemovedOf(_, _)
RemovedOf(ids, present) ==
    IF ids = <<>> THEN <<>>
    ELSE IF Head(ids) \in present
         THEN <<Head(ids)>> \o RemovedOf(Tail(ids), present \ {Head(ids)})
    ELSE RemovedOf(Tail(ids), present)

ServeBatchRemove(req) ==
    Served([ids |-> RemovedOf(req.ids, Present)], Without(clips, Range(req.ids)),
           Unpoint(current, Range(req.ids)))

ServeClear(req) == Served("none", <<>>, [w \in DOMAIN current |-> None])

\* The orders in which the daemon may list its entries.
Orders == {o \in [1..Cardinality(Present) -> Present] : Range(o) = Present}

\* ---------------------------------------------------------------- channel
\* One unary call: the request goes out, the call ends OK with the daemon's
\* reply or with a transport failure; a failed mutation may or may not
\* have reached the daemon.
Outcomes == {"OK"} \cup Statuses

ReplyOf(outcome, served) ==
    IF outcome = "OK" THEN OkReply(served.body) ELSE FailReply(outcome)

\* No invocation is being looked at: the caller holds no result.
Idle == op = "none"

\* One invocation's call on the channel and its bookkeeping.
Unary(req, outcome, applied, served, res, ins) ==
    /\ sent' = <<req>>
    /\ reply' = ReplyOf(outcome, served)
    /\ result' = res
    /\ clips' = IF applied THEN served.clips ELSE clips
    /\ current' = IF applied THEN served.current ELSE current
    /\ cleared' = IF req.rpc = "clear" /\ res.ok THEN TRUE
                  ELSE IF req.rpc = "insert" THEN FALSE ELSE cleared
    /\ prevList' = IF req.rpc = "list" /\ res.ok THEN Some(res.val)
                   ELSE IF req.rpc \in ReadRpcs THEN prevList ELSE None
    /\ lastIns' = IF ins # None /\ res.ok
                  THEN Some([id |-> res.val, data |-> ins[1].data, mime |-> ins[1].mime])
                  ELSE IF req.rpc \in ReadRpcs THEN lastIns ELSE None

Applies(outcome, applied) == outcome = "OK" => applied

\* ---------------------------------------------------------------- operations
\* impl Manager for Client, in front of the daemon.

Get ==
    /\ Idle
    /\ \E id \in Ids, outcome \in Outcomes :
        LET req == GetRequest(id)
            served == ServeGet(req)
        IN  /\ op' = "get"
            /\ args' = [id |-> id]
            /\ Unary(req, outcome, TRUE, served,
                     GetResult(id, ReplyOf(outcome, served)), None)

GetCurrentClip ==
    /\ Idle
    /\ \E mode \in Modes, outcome \in Outcomes :
        LET req == GetCurrentClipRequest(mode)
            served == ServeGetCurrentClip(req)
        IN  /\ op' = "get_current_clip"
            /\ args' = [mode |-> mode]
            /\ Unary(req, outcome, TRUE, served,
                     GetCurrentClipResult(mode, ReplyOf(outcome, served)), None)

Update ==
    /\ Idle
    /\ \E id \in Ids, p \in Pairs, outcome \in Outcomes,
       applied \in BOOLEAN, key \in Keys :
      \E nid \in {id} \cup Free :
        LET req == UpdateRequest(id, p.data, p.mime)
            served == ServeUpdate(req, nid, key)
        IN  /\ Applies(outcome, applied)
            /\ op' = "update"
            /\ args' = [id |-> id, data |-> p.data, mime |-> p.mime]
            /\ Unary(req, outcome, applied, served,
                     UpdateResult(ReplyOf(outcome, served)), None)

Mark ==
    /\ Idle
    /\ \E id \in Ids, mode \in Modes, outcome \in Outcomes, applied \in BOOLEAN :
        LET req == MarkRequest(id, mode)
            served == ServeMark(req)
        IN  /\ Applies(outcome, applied)
            /\ op' = "mark"
            /\ args' = [id |-> id, mode |-> mode]
            /\ Unary(req, outcome, applied, served,
                     MarkResult(id, mode, ReplyOf(outcome, served)), None)

\* Client::insert: one invocation, whoever calls it.
insert(data, mime, clipboard_mode) ==
    /\ Idle
    /\ \E outcome \in Outcomes, applied \in BOOLEAN, nid \in Free, key \in Keys :
        LET req == InsertRequest(data, mime, clipboard_mode)
            served == ServeInsert(req, nid, key)
        IN  /\ Applies(outcome, applied)
            /\ Unary(req, outcome, applied, served,
                     InsertResult(ReplyOf(outcome, served)),
                     Some([data |-> data, mime |-> mime]))

\* Variant of insert_clipboard: the other buffer's mode.
insert_clipboard_WrongMode(data, mime) == insert(data, mime, "Selection")

\* Manager::insert_clipboard, the trait's default method.
insert_clipboard(data, mime) == insert(data, mime, "Clipboard")

\* Manager::insert_primary, the trait's default method.
insert_primary(data, mime) == insert(data, mime, "Selection")

Insert ==
    \E p \in Pairs, mode \in Modes :
        /\ op' = "insert"
        /\ args' = [data |-> p.data, mime |-> p.mime, mode |-> mode]
        /\ insert(p.data, p.mime, mode)

InsertClipboard ==
    \E p \in Pairs :
        /\ op' = "insert_clipboard"
        /\ args' = [data |-> p.data, mime |-> p.mime]
        /\ insert_clipboard(p.data, p.mime)

InsertPrimary ==
    \E p \in Pairs :
        /\ op' = "insert_primary"
        /\ args' = [data |-> p.data, mime |-> p.mime]
        /\ insert_primary(p.data, p.mime)

Length ==
    /\ Idle
    /\ \E outcome \in Outcomes :
        LET req == LengthRequest
            served == ServeLength(req)
        IN  /\ op' = "length"
            /\ args' = "none"
            /\ Unary(req, outcome, TRUE, served,
                     LengthResult(ReplyOf(outcome, served)), None)

List ==
    /\ Idle
    /\ \E outcome \in Outcomes, order \in Orders :
        LET req == ListRequest
            served == ServeList(req, order)
        IN  /\ op' = "list"
            /\ args' = "none"
            /\ Unary(req, outcome, TRUE, served,
                     ListResult(ReplyOf(outcome, served)), None)

Remove ==
    /\ Idle
    /\ \E id \in Ids, outcome \in Outcomes, applied \in BOOLEAN :
        LET req == RemoveRequest(id)
            served == ServeRemove(req)
        IN  /\ Applies(outcome, applied)
            /\ op' = "remove"
            /\ args' = [id |-> id]
            /\ Unary(req, outcome, applied, served,
                     RemoveResult(ReplyOf(outcome, served)), None)

BatchRemove ==
    /\ Idle
    /\ \E ids \in SeqsUpTo(Ids, MaxBatch), outcome \in Outcomes, applied \in BOOLEAN :
        LET req == BatchRemoveRequest(ids)
            served == ServeBatchRemove(req)
        IN  /\ Applies(outcome, applied)
            /\ op' = "batch_remove"
            /\ args' = [ids |-> ids]
            /\ Unary(req, outcome, applied, served,
                     BatchRemoveResult(ids, ReplyOf(outcome, served)), None)

Clear ==
    /\ Idle
    /\ \E outcome \in Outcomes, applied \in BOOLEAN :
        LET req == ClearRequest
            served == ServeClear(req)
        IN  /\ Applies(outcome, applied)
            /\ op' = "clear"
            /\ args' = "none"
            /\ Unary(req, outcome, applied, served,
                     ClearResult(ReplyOf(outcome, served)), None)

\* The caller is done with the result; nothing of the call stays in the client.
Forget ==
    /\ ~Idle
    /\ op' = "none"
    /\ args' = "none"
    /\ sent' = <<>>
    /\ reply' = OkReply("none")
    /\ result' = Ok("unit")
    /\ UNCHANGED <<daemon, history>>

Next ==
    \/ Get \/ GetCurrentClip \/ Update \/ Mark
    \/ Insert \/ InsertClipboard \/ InsertPrimary
    \/ Length \/ List \/ Remove \/ BatchRemove \/ Clear
    \/ Forget

Spec == Init /\ [][Next]_vars

\* ---------------------------------------------------------------- arbitrary channel
\* impl Manager for Client, in front of a channel that may answer anything of
\* the reply's message shape.
WireMimes == {MimeStr(m) : m \in Mimes} \cup {"?"}
WireEntries == [id : Ids, data : {"hello", ""}, mime : WireMimes, key : Keys]
WirePool == [id : Ids, data : {"hello"}, mime : {"text/plain"}, key : Keys]

Replies(bodies) == {FailReply(s) : s \in Statuses} \cup {OkReply(b) : b \in bodies}

OptionalEntry == [data : {None} \cup {Some(e) : e \in WireEntries}]

Wire(req, rep, res) ==
    /\ sent' = <<req>>
    /\ reply' = rep
    /\ result' = res
    /\ UNCHANGED <<daemon, history>>

WGet ==
    /\ Idle
    /\ \E id \in Ids, rep \in Replies(OptionalEntry) :
        /\ op' = "get"
        /\ args' = [id |-> id]
        /\ Wire(GetRequest(id), rep, GetResult(id, rep))

WGetCurrentClip ==
    /\ Idle
    /\ \E mode \in Modes, rep \in Replies(OptionalEntry) :
        /\ op' = "get_current_clip"
        /\ args' = [mode |-> mode]
        /\ Wire(GetCurrentClipRequest(mode), rep, GetCurrentClipResult(mode, rep))

WUpdate ==
    /\ Idle
    /\ \E id \in Ids, p \in Pairs, rep \in Replies([ok : BOOLEAN, new_id : Ids]) :
        /\ op' = "update"
        /\ args' = [id |-> id, data |-> p.data, mime |-> p.mime]
        /\ Wire(UpdateRequest(id, p.data, p.mime), rep, UpdateResult(rep))

WMark ==
    /\ Idle
    /\ \E id \in Ids, mode \in Modes, rep \in Replies([ok : BOOLEAN]) :
        /\ op' = "mark"
        /\ args' = [id |-> id, mode |-> mode]
        /\ Wire(MarkRequest(id, mode), rep, MarkResult(id, mode, rep))

WInsert ==
    /\ Idle
    /\ \E p \in Pairs, mode \in Modes, rep \in Replies([id : Ids]) :
        /\ op' = "insert"
        /\ args' = [data |-> p.data, mime |-> p.mime, mode |-> mode]
        /\ Wire(InsertRequest(p.data, p.mime, mode), rep, InsertResult(rep))

WLength ==
    /\ Idle
    /\ \E rep \in Replies([length : WireCounts]) :
        /\ op' = "length"
        /\ args' = "none"
        /\ Wire(LengthRequest, rep, LengthResult(rep))

WList ==
    /\ Idle
    /\ \E rep \in Replies([data : SeqsUpTo(WirePool, MaxWireList)]) :
        /\ op' = "list"
        /\ args' = "none"
        /\ Wire(ListRequest, rep, ListResult(rep))

WRemove ==
    /\ Idle
    /\ \E id \in Ids, rep \in Replies([ok : BOOLEAN]) :
        /\ op' = "remove"
        /\ args' = [id |-> id]
        /\ Wire(RemoveRequest(id), rep, RemoveResult(rep))

WBatchRemove ==
    /\ Idle
    /\ \E ids \in SeqsUpTo(Ids, MaxBatch),
          rep \in Replies([ids : SeqsUpTo(Ids, MaxWireList)]) :
        /\ op' = "batch_remove"
        /\ args' = [ids |-> ids]
        /\ Wire(BatchRemoveRequest(ids), rep, BatchRemoveResult(ids, rep))

WClear ==
    /\ Idle
    /\ \E rep \in Replies({"none"}) :
        /\ op' = "clear"
        /\ args' = "none"
        /\ Wire(ClearRequest, rep, ClearResult(rep))

WireNext ==
    \/ WGet \/ WGetCurrentClip \/ WUpdate \/ WMark \/ WInsert
    \/ WLength \/ WList \/ WRemove \/ WBatchRemove \/ WClear
    \/ Forget

WireSpec == Init /\ [][WireNext]_vars

\* ---------------------------------------------------------------- properties
Returned(o) == op = o

IsStatus(res, rep) ==
    /\ ~res.ok
    /\ res.err.kind = "Status"
    /\ res.err.source = Some(rep.status)

IsEmpty(res) == ~res.ok /\ res.err.kind = "Empty"

Sorted(s) == \A i \in 1..(Len(s) - 1) : ClipLeq(s[i], s[i + 1])

Count(s, e) == Cardinality({i \in DOMAIN s : s[i] = e})

SameEntries(s, t) ==
    /\ Len(s) = Len(t)
    /\ \A e \in Range(s) \cup Range(t) : Count(s, e) = Count(t, e)

OrderEquivalent(s, t) ==
    /\ Len(s) = Len(t)
    /\ \A i \in DOMAIN s : ~ClipLess(s[i], t[i]) /\ ~ClipLess(t[i], s[i])

RECURSIVE IsSubseq(_, _)
IsSubseq(s, t) ==
    IF s = <<>> THEN TRUE
    ELSE IF t = <<>> THEN FALSE
    ELSE IF Head(s) = Head(t) THEN IsSubseq(Tail(s), Tail(t))
    ELSE IsSubseq(s, Tail(t))

NoDuplicates(s) == \A i, j \in DOMAIN s : s[i] = s[j] => i = j

\* The request an invocation of the operation must have put on the channel.
RequestOf(o, a) ==
    CASE o = "get" -> GetRequest(a.id)
      [] o = "get_current_clip" -> GetCurrentClipRequest(a.mode)
      [] o = "update" -> UpdateRequest(a.id, a.data, a.mime)
      [] o = "mark" -> MarkRequest(a.id, a.mode)
      [] o = "insert" -> InsertRequest(a.data, a.mime, a.mode)
      [] o = "insert_clipboard" -> InsertRequest(a.data, a.mime, "Clipboard")
      [] o = "insert_primary" -> InsertRequest(a.data, a.mime, "Selection")
      [] o = "length" -> LengthRequest
      [] o = "list" -> ListRequest
      [] o = "remove" -> RemoveRequest(a.id)
      [] o = "batch_remove" -> BatchRemoveRequest(a.ids)
      [] o = "clear" -> ClearRequest

\* C1: get and get_current_clip answer a successful reply without data by
\* Empty, a failed call by Status (with the id, resp. the mode), a reply with
\* data by that entry; so get_current_clip on a buffer that holds nothing
\* yields Empty whenever the call itself succeeds.
C1_EmptyVersusStatus ==
    (Returned("get") \/ Returned("get_current_clip")) =>
        /\ (reply.ok /\ reply.body.data = None) => IsEmpty(result)
        /\ ~reply.ok =>
              /\ IsStatus(result, reply)
              /\ Returned("get") =>
                    result.err.id = Some(args.id) /\ result.err.mode = None
              /\ Returned("get_current_clip") =>
                    result.err.mode = Some(args.mode) /\ result.err.id = None
        /\ (reply.ok /\ reply.body.data # None) =>
              result = Ok(ClipEntryFrom(reply.body.data[1]))
        /\ (Returned("get_current_clip") /\ reply.ok
                /\ current[ModeToWire(args.mode)] = None) => IsEmpty(result)

C1_Witness ==
    /\ Returned("get_current_clip")
    /\ reply.ok
    /\ current[ModeToWire(args.mode)] = None
    /\ Present # {}
    /\ IsEmpty(result)

\* C2: an insert_clipboard(data, mime) step is an insert(data, mime, Clipboard)
\* step and an insert_primary(data, mime) step an insert(data, mime, Selection)
\* step: one insert request with that mode, data and mime, the same result,
\* the same effect on the store.
C2_ConvenienceIsInsert ==
    [][\A p \in Pairs :
          /\ (op' = "insert_clipboard" /\ args'.data = p.data /\ args'.mime = p.mime) =>
                /\ insert(p.data, p.mime, "Clipboard")
                /\ sent' = <<InsertRequest(p.data, p.mime, "Clipboard")>>
          /\ (op' = "insert_primary" /\ args'.data = p.data /\ args'.mime = p.mime) =>
                /\ insert(p.data, p.mime, "Selection")
                /\ sent' = <<InsertRequest(p.data, p.mime, "Selection")>>]_vars

C2_Witness ==
    /\ Returned("insert_clipboard")
    /\ result.ok
    /\ current[ModeToWire("Clipboard")] = Some(result.val)
    /\ current[ModeToWire("Selection")] # Some(result.val)

\* C3: list() returns the entries of the reply, each as often as the reply has
\* it, in non-decreasing order; a second list() with no mutation since the
\* first returns an order-equivalent sequence.
C3_ListSorted ==
    /\ [](Returned("list") /\ result.ok =>
            /\ Sorted(result.val)
            /\ SameEntries(result.val, MapEntries(reply.body.data)))
    /\ [][(op' = "list" /\ result'.ok /\ prevList # None) =>
            OrderEquivalent(result'.val, prevList[1])]_vars

C3_Witness ==
    /\ Returned("list")
    /\ result.ok
    /\ Len(result.val) >= 2
    /\ MapEntries(reply.body.data) # result.val

\* C4: length() fails only when the call fails; a count below zero or above
\* the unsigned size type's range comes back as 0, any other count unchanged.
C4_LengthCoercion ==
    Returned("length") =>
        /\ result.ok <=> reply.ok
        /\ reply.ok =>
              result.val = IF reply.body.length < 0 \/ reply.body.length > UsizeMax
                           THEN 0 ELSE reply.body.length
        /\ ~reply.ok => IsStatus(result, reply)

C4_Witness ==
    /\ Returned("length")
    /\ reply.ok
    /\ reply.body.length < 0
    /\ result = Ok(0)

C6_InsertGetRoundTrip ==
    (Returned("get") /\ result.ok /\ lastIns # None /\ args.id = lastIns[1].id) =>
        /\ result.val.data = lastIns[1].data
        /\ result.val.mime = lastIns[1].mime

\* C7: remove(id) returns true exactly when the id was present, and the id is
\* absent afterwards; an absent id becomes present only by being assigned by
\* an insert or update; get on an absent id yields Empty.
C7_RemoveOnce ==
    /\ [][(op' = "remove" /\ result'.ok) =>
            /\ result'.val = (args'.id \in Present)
            /\ args'.id \notin DOMAIN clips']_vars
    /\ [][\A id \in Ids : (id \notin Present /\ id \in DOMAIN clips') =>
            /\ sent'[1].rpc \in {"insert", "update"}
            /\ reply'.ok => id = (IF sent'[1].rpc = "insert" THEN reply'.body.id
                                  ELSE reply'.body.new_id)]_vars
    /\ [][(op' = "get" /\ reply'.ok /\ args'.id \notin Present) =>
            IsEmpty(result')]_vars

C7_Witness ==
    /\ Returned("remove")
    /\ result = Ok(TRUE)
    /\ args.id \notin Present
    /\ Present # {}

\* C8: batch_remove(ids) returns the reply's id list as it is, and that list
\* is a subsequence of ids holding exactly the ids present before the call.
C8_BatchRemoveSubsequence ==
    [][(op' = "batch_remove" /\ result'.ok) =>
          /\ result'.val = reply'.body.ids
          /\ IsSubseq(result'.val, args'.ids)
          /\ NoDuplicates(result'.val)
          /\ Range(result'.val) = Range(args'.ids) \cap Present]_vars

C8_Witness ==
    /\ Returned("batch_remove")
    /\ result.ok
    /\ result.val # <<>>
    /\ Len(result.val) < Len(args.ids)

\* C9: after a successful clear() and until the next insert, length() returns
\* 0 and list() returns the empty sequence.
C9_ClearEmpties ==
    cleared =>
        /\ (Returned("length") /\ result.ok) => result.val = 0
        /\ (Returned("list") /\ result.ok) => result.val = <<>>

C9_Witness ==
    /\ cleared
    /\ Returned("list")
    /\ result = Ok(<<>>)

\* C10: every invocation puts exactly one request on the channel, the one its
\* arguments determine, and a failed call comes back as the operation's error
\* carrying that failure: no second attempt, no answer without a request.
C10_OneRequestNoRetry ==
    ~Idle =>
        /\ Len(sent) = 1
        /\ sent[1] = RequestOf(op, args)
        /\ ~reply.ok => IsStatus(result, reply)
        /\ result.ok => reply.ok

C10_Witness ==
    /\ Returned("length")
    /\ ~reply.ok
    /\ Len(sent) = 1
    /\ IsStatus(result, reply)

====
